---- MODULE Spec2Model ----
(***************************************************************************)
(* Model of encoder-decoder.ipynb: a notebook that reads three CSV files,  *)
(* tokenizes them, configures a Seq2SeqTrainer, trains for three epochs    *)
(* with an evaluation on the validation split after each epoch, and then   *)
(* evaluates on the test split and prints the result.                      *)
(*                                                                         *)
(* The notebook's own statements are translated line by line.  The library *)
(* calls it makes (pandas, datasets, transformers, sacrebleu) are modelled *)
(* by the documented behaviour of the call with the arguments the notebook *)
(* passes; values the libraries compute from a neural network or from a    *)
(* random bootstrap (generated tokens, ROUGE and BLEU scores) are          *)
(* nondeterministic choices from small sets.                               *)
(***************************************************************************)
EXTENDS Integers, Sequences, FiniteSets, TLC

\* ------------------------------------------------------------------ bounds
\* Most rows a CSV file holds.
MaxRows == 3
\* Number of different file contents (text length profiles) tried.
NumVariants == 2
\* Rows handed to preprocess_function per call by Dataset.map(batched=True)
\* (the library default is 1000; scaled down so that several calls happen).
MapBatchSize == 2
\* Number of different generation behaviours of the model tried.
NumGen == 2
\* Number of different raw score vectors the metrics may return.
NumScore == 3

\* ------------------------------------------------------- program constants
max_length_inputs == 512
max_length_labels == 128
num_train_epochs == 3
per_device_train_batch_size == 2
per_device_eval_batch_size == 2
\* round(v, 4)
ndigits == 4

\* ------------------------------------------------------------- vocabulary
\* The tokenizer of Falconsai/medical_summarization is a T5 tokenizer:
\* id 0 is <pad>, id 1 is </s>, id 2 is <unk>; pieces follow.
pad_token_id == 0
eos_token_id == 1
unk_token_id == 2
\* The collator's label_pad_token_id, also the loss's ignore_index and the
\* padding_index with which the evaluation loop concatenates batches.
label_pad_token_id == 0 - 100

Vocab == <<"pain", "chest", "patient">>
Words == {Vocab[i] : i \in 1..Len(Vocab)}
all_special_ids == {pad_token_id, eos_token_id, unk_token_id}

convert_tokens_to_ids(w) ==
    IF w \in Words
    THEN unk_token_id + (CHOOSE i \in 1..Len(Vocab) : Vocab[i] = w)
    ELSE unk_token_id

convert_ids_to_tokens(id) == Vocab[id - unk_token_id]

\* ----------------------------------------------------------- seq helpers
Min(a, b) == IF a < b THEN a ELSE b
Max(a, b) == IF a > b THEN a ELSE b

Take(s, n) == SubSeq(s, 1, Min(n, Len(s)))

Repeat(x, n) == [i \in 1..n |-> x]

FilterOut(s, bad) == SelectSeq(s, LAMBDA x : x \notin bad)

MaxLenOf(seqs) ==
    IF seqs = <<>> THEN 0
    ELSE CHOOSE m \in {Len(seqs[i]) : i \in 1..Len(seqs)} :
            \A i \in 1..Len(seqs) : Len(seqs[i]) <= m

\* ---------------------------------------------------------------- tokenizer
\* tokenizer(text, max_length=L, truncation=True, padding="max_length"):
\* pieces to ids, </s> appended, the pieces cut so that the whole fits in L,
\* then padded on the right with <pad> up to L.
Encode(text, L) ==
    LET ids  == [i \in 1..Len(text) |-> convert_tokens_to_ids(text[i])]
        real == Take(ids, L - 1) \o <<eos_token_id>>
    IN [input_ids      |-> real \o Repeat(pad_token_id, L - Len(real)),
        attention_mask |-> Repeat(1, Len(real)) \o Repeat(0, L - Len(real))]

\* tokenizer on a list of texts: one encoding per text, in order.
tokenizer(texts, L) ==
    [input_ids      |-> [i \in 1..Len(texts) |-> Encode(texts[i], L).input_ids],
     attention_mask |-> [i \in 1..Len(texts) |-> Encode(texts[i], L).attention_mask]]

\* tokenizer.decode(ids, skip_special_tokens=True)
decode(ids) ==
    LET kept == FilterOut(ids, all_special_ids)
    IN [i \in 1..Len(kept) |-> convert_ids_to_tokens(kept[i])]

\* tokenizer.batch_decode(batch, skip_special_tokens=True)
batch_decode(batch) == [i \in 1..Len(batch) |-> decode(batch[i])]

\* -------------------------------------------------------------- the files
train_csv == "preprocessed_data/train.csv"
val_csv == "preprocessed_data/val.csv"
test_csv == "preprocessed_data/test.csv"
\* A file the notebook has no business reading.
other_csv == "preprocessed_data/all.csv"
Paths == <<train_csv, val_csv, test_csv, other_csv>>
PathSet == {Paths[i] : i \in 1..Len(Paths)}

\* Text lengths (in pieces) around the two maximum lengths.
TransLens == <<3, max_length_inputs - 1, 0, max_length_inputs, max_length_inputs + 88>>
DescLens == <<2, max_length_labels + 72, max_length_labels - 1, 0, max_length_labels>>

TextOf(len, seed) == [j \in 1..len |-> Vocab[((j + seed) % Len(Vocab)) + 1]]

\* Row r of file number f under content variant v.  A file has more columns
\* than the two the notebook uses.
RowOf(v, f, r) ==
    [transcription     |-> TextOf(TransLens[((v + f + r) % Len(TransLens)) + 1], f),
     description       |-> TextOf(DescLens[((v + 2 * f + r) % Len(DescLens)) + 1], f + 1),
     medical_specialty |-> TextOf(1, f)]

FileOf(v, f, n) == [r \in 1..n |-> RowOf(v, f, r)]

\* ------------------------------------------------------------------ state
Splits == {"train", "validation", "test"}
Stages == <<"read", "tokenize", "configure", "train", "evaluate">>
StageSet == {Stages[i] : i \in 1..Len(Stages)}

VARIABLES
    files,          \* the file system: path -> rows of the CSV file
    pc,             \* the statement the notebook is at
    started,        \* per stage, how many times it was entered
    finished,       \* per stage, how many times it completed
    error,          \* the stage whose exception ended the run, or "none"
    read_csv_calls, \* the paths pd.read_csv was called with, in order
    df,             \* train_df, val_df, test_df
    lists,          \* train_transcriptions, train_descriptions, ...
    dataset,        \* the DatasetDict
    training_args,  \* Seq2SeqTrainingArguments
    trainer,        \* Seq2SeqTrainer: its datasets and its state
    remaining,      \* rows of the train set the current epoch has not used yet
    last_batch,     \* the last collated batch a training step consumed
    trained_on,     \* <<split, row>> of every example a weight update used
    evaluations,    \* one record per evaluation loop run, in order
    metrics_call,   \* the last call of compute_metrics, with what it passed on
    compute_metrics_calls, \* how many times compute_metrics was called
    results,        \* the variable results of the last cell
    printed         \* what print(results) wrote

vars == <<files, pc, started, finished, error, read_csv_calls, df, lists,
          dataset, training_args, trainer, remaining, last_batch, trained_on,
          evaluations, metrics_call, compute_metrics_calls, results, printed>>

None == [none |-> TRUE]

Init ==
    /\ \E v \in 1..NumVariants :
       \E n \in 1..MaxRows :
            files = [p \in PathSet |->
                        IF p = train_csv THEN FileOf(v, 1, n)
                        ELSE IF p = val_csv THEN FileOf(v, 2, (n % MaxRows) + 1)
                        ELSE IF p = test_csv THEN FileOf(v, 3, ((n + 1) % MaxRows) + 1)
                        ELSE FileOf(v, 1, 1) \o FileOf(v, 2, 1) \o FileOf(v, 3, 1)]
    /\ pc = "read"
    /\ started = [s \in StageSet |-> 0]
    /\ finished = [s \in StageSet |-> 0]
    /\ error = "none"
    /\ read_csv_calls = <<>>
    /\ df = None
    /\ lists = None
    /\ dataset = None
    /\ training_args = None
    /\ trainer = None
    /\ remaining = {}
    /\ last_batch = None
    /\ trained_on = {}
    /\ evaluations = <<>>
    /\ metrics_call = None
    /\ compute_metrics_calls = 0
    /\ results = None
    /\ printed = None

Enter(stage) == started' = [started EXCEPT ![stage] = @ + 1]
Leave(stage) == finished' = [finished EXCEPT ![stage] = @ + 1]

\* --------------------------------------------------------- cell 2: reading
\* pd.read_csv(path): every row and every column of the file at path.
read_csv(path) == files[path]

\* df[column].tolist()
tolist(frame, column) == [i \in 1..Len(frame) |-> frame[i][column]]

\* ReadCSV with a copied line left unedited: val_df read from train.csv.
ReadCSV_val_from_train ==
    /\ pc = "read"
    /\ LET train_df == read_csv(train_csv)
           val_df   == read_csv(train_csv)
           test_df  == read_csv(test_csv)
       IN /\ df' = [train_df |-> train_df, val_df |-> val_df, test_df |-> test_df]
          /\ lists' = [train_transcriptions |-> tolist(train_df, "transcription"),
                       train_descriptions   |-> tolist(train_df, "description"),
                       val_transcriptions   |-> tolist(val_df, "transcription"),
                       val_descriptions     |-> tolist(val_df, "description"),
                       test_transcriptions  |-> tolist(test_df, "transcription"),
                       test_descriptions    |-> tolist(test_df, "description")]
    /\ read_csv_calls' = read_csv_calls \o <<train_csv, train_csv, test_csv>>
    /\ Enter("read") /\ Leave("read")
    /\ pc' = "tokenize"
    /\ UNCHANGED <<compute_metrics_calls, files, error, dataset, training_args, trainer, remaining,
                   last_batch, trained_on, evaluations, metrics_call, results,
                   printed>>

ReadCSV ==
    /\ pc = "read"
    /\ LET train_df == read_csv(train_csv)
           val_df   == read_csv(val_csv)
           test_df  == read_csv(test_csv)
       IN /\ df' = [train_df |-> train_df, val_df |-> val_df, test_df |-> test_df]
          /\ lists' = [train_transcriptions |-> tolist(train_df, "transcription"),
                       train_descriptions   |-> tolist(train_df, "description"),
                       val_transcriptions   |-> tolist(val_df, "transcription"),
                       val_descriptions     |-> tolist(val_df, "description"),
                       test_transcriptions  |-> tolist(test_df, "transcription"),
                       test_descriptions    |-> tolist(test_df, "description")]
    /\ read_csv_calls' = read_csv_calls \o <<train_csv, val_csv, test_csv>>
    /\ Enter("read") /\ Leave("read")
    /\ pc' = "tokenize"
    /\ UNCHANGED <<compute_metrics_calls, files, error, dataset, training_args, trainer, remaining,
                   last_batch, trained_on, evaluations, metrics_call, results,
                   printed>>

\* tokenizer(texts, max_length=L, truncation=True) without padding.
tokenizer_unpadded(texts, L) ==
    [input_ids      |-> [i \in 1..Len(texts) |->
                            Take([j \in 1..Len(texts[i]) |-> convert_tokens_to_ids(texts[i][j])], L - 1)
                                \o <<eos_token_id>>],
     attention_mask |-> [i \in 1..Len(texts) |-> Repeat(1, Min(Len(texts[i]), L - 1) + 1)]]

\* preprocess_function with the input max_length used for the labels too.
preprocess_function_long_labels(examples) ==
    LET inputs  == tokenizer(examples.transcription, max_length_inputs)
        outputs == tokenizer(examples.description, max_length_inputs)
    IN [input_ids      |-> inputs.input_ids,
        attention_mask |-> inputs.attention_mask,
        labels         |-> outputs.input_ids]

\* preprocess_function with the padding argument left off the labels.
preprocess_function_unpadded_labels(examples) ==
    LET inputs  == tokenizer(examples.transcription, max_length_inputs)
        outputs == tokenizer_unpadded(examples.description, max_length_labels)
    IN [input_ids      |-> inputs.input_ids,
        attention_mask |-> inputs.attention_mask,
        labels         |-> outputs.input_ids]

\* ------------------------------------------------------ cell 3: tokenizing
\* examples is a dict of columns; so is the value returned.
preprocess_function(examples) ==
    LET inputs  == tokenizer(examples.transcription, max_length_inputs)
        outputs == tokenizer(examples.description, max_length_labels)
    IN [input_ids      |-> inputs.input_ids,
        attention_mask |-> inputs.attention_mask,
        labels         |-> outputs.input_ids]

\* Dataset.from_dict({'transcription': ts, 'description': ds}): row i pairs
\* the i-th elements of the columns.
from_dict(ts, ds) ==
    [i \in 1..Len(ts) |-> [transcription |-> ts[i], description |-> ds[i]]]

\* One call of the mapped function on rows lo..hi, and the rows it yields:
\* the old columns are kept and the returned columns are added.
MapBatch(data, lo, hi) ==
    LET examples == [transcription |-> [i \in 1..(hi - lo + 1) |-> data[lo + i - 1].transcription],
                     description   |-> [i \in 1..(hi - lo + 1) |-> data[lo + i - 1].description]]
        out == preprocess_function(examples)
    IN [i \in 1..(hi - lo + 1) |->
            [transcription  |-> examples.transcription[i],
             description    |-> examples.description[i],
             input_ids      |-> out.input_ids[i],
             attention_mask |-> out.attention_mask[i],
             labels         |-> out.labels[i]]]

\* Dataset.map(preprocess_function, batched=True): the rows are handed over
\* in consecutive slices and the results are concatenated in order.
RECURSIVE MapFrom(_, _)
MapFrom(data, lo) ==
    IF lo > Len(data) THEN <<>>
    ELSE LET hi == Min(lo + MapBatchSize - 1, Len(data))
         IN MapBatch(data, lo, hi) \o MapFrom(data, hi + 1)

map(data) == MapFrom(data, 1)

Tokenize ==
    /\ pc = "tokenize"
    /\ LET train_data == from_dict(lists.train_transcriptions, lists.train_descriptions)
           val_data   == from_dict(lists.val_transcriptions, lists.val_descriptions)
           test_data  == from_dict(lists.test_transcriptions, lists.test_descriptions)
       IN dataset' = [train      |-> map(train_data),
                      validation |-> map(val_data),
                      test       |-> map(test_data)]
    /\ Enter("tokenize") /\ Leave("tokenize")
    /\ pc' = "configure"
    /\ UNCHANGED <<compute_metrics_calls, files, error, read_csv_calls, df, lists, training_args,
                   trainer, remaining, last_batch, trained_on, evaluations,
                   metrics_call, results, printed>>

\* ----------------------------------------------- cells 4 and 5: configuring
\* The arguments without evaluation_strategy (the library default is "no").
Seq2SeqTrainingArguments_no_eval ==
    [output_dir                  |-> "./results",
     evaluation_strategy         |-> "no",
     per_device_train_batch_size |-> per_device_train_batch_size,
     per_device_eval_batch_size  |-> per_device_eval_batch_size,
     save_total_limit            |-> 3,
     num_train_epochs            |-> num_train_epochs,
     predict_with_generate       |-> TRUE,
     logging_dir                 |-> "./logs"]

Seq2SeqTrainingArguments ==
    [output_dir                  |-> "./results",
     evaluation_strategy         |-> "epoch",
     per_device_train_batch_size |-> per_device_train_batch_size,
     per_device_eval_batch_size  |-> per_device_eval_batch_size,
     save_total_limit            |-> 3,
     num_train_epochs            |-> num_train_epochs,
     predict_with_generate       |-> TRUE,
     logging_dir                 |-> "./logs"]

\* The trainer given the test split as its eval_dataset.
Seq2SeqTrainer_eval_on_test(args) ==
    [args          |-> args,
     train_dataset |-> "train",
     eval_dataset  |-> "test",
     global_step   |-> 0,
     epoch         |-> 0]

\* The trainer refers to the splits it was given; global_step counts the
\* weight updates made so far and epoch the epochs completed.
Seq2SeqTrainer(args) ==
    [args          |-> args,
     train_dataset |-> "train",
     eval_dataset  |-> "validation",
     global_step   |-> 0,
     epoch         |-> 0]

\* Configure with the training cell skipped: the test evaluation comes next.
Configure_then_evaluate ==
    /\ pc = "configure"
    /\ training_args' = Seq2SeqTrainingArguments
    /\ trainer' = Seq2SeqTrainer(Seq2SeqTrainingArguments)
    /\ Enter("configure") /\ Leave("configure")
    /\ pc' = "evaluate"
    /\ UNCHANGED <<compute_metrics_calls, files, error, read_csv_calls, df, lists, dataset, remaining,
                   last_batch, trained_on, evaluations, metrics_call, results,
                   printed>>

Configure ==
    /\ pc = "configure"
    /\ training_args' = Seq2SeqTrainingArguments
    /\ trainer' = Seq2SeqTrainer(Seq2SeqTrainingArguments)
    /\ Enter("configure") /\ Leave("configure")
    /\ pc' = "train"
    /\ UNCHANGED <<compute_metrics_calls, files, error, read_csv_calls, df, lists, dataset, remaining,
                   last_batch, trained_on, evaluations, metrics_call, results,
                   printed>>

\* ------------------------------------------------------------ data collator
\* DataCollatorForSeq2Seq(tokenizer, model=model) on a list of features:
\* labels are padded on the right with label_pad_token_id up to the longest
\* labels of the batch, the inputs with the pad id up to the longest input.
data_collator(features) ==
    LET n  == Len(features)
        ml == MaxLenOf([i \in 1..n |-> features[i].labels])
        mi == MaxLenOf([i \in 1..n |-> features[i].input_ids])
    IN [input_ids      |-> [i \in 1..n |-> features[i].input_ids
                                \o Repeat(pad_token_id, mi - Len(features[i].input_ids))],
        attention_mask |-> [i \in 1..n |-> features[i].attention_mask
                                \o Repeat(0, mi - Len(features[i].attention_mask))],
        labels         |-> [i \in 1..n |-> features[i].labels
                                \o Repeat(label_pad_token_id, ml - Len(features[i].labels))]]

\* The positions of a labels row the cross-entropy loss counts
\* (ignore_index is label_pad_token_id).
LossPositions(labels) == {j \in 1..Len(labels) : labels[j] # label_pad_token_id}

\* ------------------------------------------------------------------ metrics
\* Scores are fixed-point numbers: SCALE units make 1.0.
SCALE == 10000000

RECURSIVE Pow10(_)
Pow10(n) == IF n = 0 THEN 1 ELSE 10 * Pow10(n - 1)

\* Python's round(v, nd) on a non-negative number: the nearest multiple of
\* 10^-nd, a tie going to the even one.
round(v, nd) ==
    LET q  == SCALE \div Pow10(nd)
        n  == v \div q
        r  == v % q
    IN IF 2 * r < q THEN n * q
       ELSE IF 2 * r > q THEN (n + 1) * q
       ELSE IF n % 2 = 0 THEN n * q
       ELSE (n + 1) * q

\* F-measures in [0, 1] and BLEU scores in [0, 100] the libraries may return.
FCands == <<1234565, 3333333, 0, 1234575, 6666667, 10000000, 4999999>>
BCands == <<123457500, 471234449, 0, 1000000000, 99999999, 471234551, 123456500>>

rouge_types == <<"rouge1", "rouge2", "rougeL", "rougeLsum">>

\* rouge_metric.compute(predictions=..., references=..., use_stemmer=True):
\* for each default rouge type an aggregate of low, mid and high scores.
\* c selects the values the bootstrap aggregation comes out with.
rouge_compute(predictions, references, c) ==
    [k \in {rouge_types[j] : j \in 1..Len(rouge_types)} |->
        LET j == CHOOSE x \in 1..Len(rouge_types) : rouge_types[x] = k
            f == FCands[((c + j) % Len(FCands)) + 1]
        IN [low  |-> [fmeasure |-> f \div 2],
            mid  |-> [fmeasure |-> f],
            high |-> [fmeasure |-> f + (SCALE - f) \div 2]]]

\* sacrebleu.corpus_bleu(hypotheses, [references]).score
corpus_bleu(hypotheses, references, c) ==
    [score |-> BCands[(c % Len(BCands)) + 1]]

\* {**a, **b}
Merge(a, b) ==
    [k \in (DOMAIN a) \cup (DOMAIN b) |-> IF k \in DOMAIN b THEN b[k] ELSE a[k]]

\* Variants of compute_metrics with one slip each: the rounding left out,
\* the two arguments of corpus_bleu exchanged, the BLEU entry not merged.
compute_metrics_unrounded(eval_pred, c) ==
    LET predictions    == eval_pred[1]
        labels         == eval_pred[2]
        decoded_preds  == batch_decode(predictions)
        decoded_labels == batch_decode(labels)
        rouge_out      == rouge_compute(decoded_preds, decoded_labels, c)
        rouge_result   == [key \in DOMAIN rouge_out |-> rouge_out[key].mid.fmeasure * 100]
        bleu           == corpus_bleu(decoded_preds, <<decoded_labels>>, c)
        bleu_result    == [key \in {"bleu"} |-> bleu.score]
        result         == Merge(rouge_result, bleu_result)
    IN [eval_pred  |-> eval_pred,
        rouge_call |-> [predictions |-> decoded_preds, references |-> decoded_labels],
        rouge_out  |-> rouge_out,
        bleu_call  |-> [hypotheses |-> decoded_preds, references |-> <<decoded_labels>>],
        bleu       |-> bleu,
        result     |-> result,
        ret        |-> result]


compute_metrics_bleu_swapped(eval_pred, c) ==
    LET predictions    == eval_pred[1]
        labels         == eval_pred[2]
        decoded_preds  == batch_decode(predictions)
        decoded_labels == batch_decode(labels)
        rouge_out      == rouge_compute(decoded_preds, decoded_labels, c)
        rouge_result   == [key \in DOMAIN rouge_out |-> rouge_out[key].mid.fmeasure * 100]
        bleu           == corpus_bleu(decoded_labels, <<decoded_preds>>, c)
        bleu_result    == [key \in {"bleu"} |-> bleu.score]
        result         == Merge(rouge_result, bleu_result)
    IN [eval_pred  |-> eval_pred,
        rouge_call |-> [predictions |-> decoded_preds, references |-> decoded_labels],
        rouge_out  |-> rouge_out,
        bleu_call  |-> [hypotheses |-> decoded_labels, references |-> <<decoded_preds>>],
        bleu       |-> bleu,
        result     |-> result,
        ret        |-> [k \in DOMAIN result |-> round(result[k], ndigits)]]


compute_metrics_no_bleu(eval_pred, c) ==
    LET predictions    == eval_pred[1]
        labels         == eval_pred[2]
        decoded_preds  == batch_decode(predictions)
        decoded_labels == batch_decode(labels)
        rouge_out      == rouge_compute(decoded_preds, decoded_labels, c)
        rouge_result   == [key \in DOMAIN rouge_out |-> rouge_out[key].mid.fmeasure * 100]
        bleu           == corpus_bleu(decoded_preds, <<decoded_labels>>, c)
        bleu_result    == [key \in {"bleu"} |-> bleu.score]
        result         == rouge_result
    IN [eval_pred  |-> eval_pred,
        rouge_call |-> [predictions |-> decoded_preds, references |-> decoded_labels],
        rouge_out  |-> rouge_out,
        bleu_call  |-> [hypotheses |-> decoded_preds, references |-> <<decoded_labels>>],
        bleu       |-> bleu,
        result     |-> result,
        ret        |-> [k \in DOMAIN result |-> round(result[k], ndigits)]]


\* compute_metrics(eval_pred).  The value is the returned dictionary
\* (ret) together with what the call handed to the two metrics.
compute_metrics(eval_pred, c) ==
    LET predictions    == eval_pred[1]
        labels         == eval_pred[2]
        decoded_preds  == batch_decode(predictions)
        decoded_labels == batch_decode(labels)
        rouge_out      == rouge_compute(decoded_preds, decoded_labels, c)
        rouge_result   == [key \in DOMAIN rouge_out |-> rouge_out[key].mid.fmeasure * 100]
        bleu           == corpus_bleu(decoded_preds, <<decoded_labels>>, c)
        bleu_result    == [key \in {"bleu"} |-> bleu.score]
        result         == Merge(rouge_result, bleu_result)
    IN [eval_pred  |-> eval_pred,
        rouge_call |-> [predictions |-> decoded_preds, references |-> decoded_labels],
        rouge_out  |-> rouge_out,
        bleu_call  |-> [hypotheses |-> decoded_preds, references |-> <<decoded_labels>>],
        bleu       |-> bleu,
        result     |-> result,
        ret        |-> [k \in DOMAIN result |-> round(result[k], ndigits)]]

\* ---------------------------------------------------------- evaluation loop
\* Longest sequence model.generate returns.
GenMaxLen == 4

\* model.generate on one collated row: the decoder start token (the pad
\* id), some pieces, </s>; padded with the pad id to the generation length.
\* g selects how many pieces this set of weights produces.
generate(input_ids, g) ==
    LET content == FilterOut(input_ids, all_special_ids)
        out     == <<pad_token_id>> \o Take(content, g % (GenMaxLen - 1)) \o <<eos_token_id>>
    IN out \o Repeat(pad_token_id, GenMaxLen - Len(out))

\* nested_concat(a, b, padding_index=-100): rows of a then rows of b, all
\* padded on the right to the longer row length.
nested_concat(a, b) ==
    LET m == Max(MaxLenOf(a), MaxLenOf(b))
        all == a \o b
    IN [i \in 1..Len(all) |-> all[i] \o Repeat(label_pad_token_id, m - Len(all[i]))]

\* The columns of a row the model accepts (the others are removed).
Features(row) ==
    [input_ids |-> row.input_ids, attention_mask |-> row.attention_mask,
     labels |-> row.labels]

\* Rows lo.. of data in batches of per_device_eval_batch_size, in order:
\* predictions and labels of all batches, concatenated.
RECURSIVE EvalFrom(_, _, _)
EvalFrom(data, lo, g) ==
    IF lo > Len(data) THEN <<<<>>, <<>>>>
    ELSE LET hi    == Min(lo + per_device_eval_batch_size - 1, Len(data))
             batch == data_collator([i \in 1..(hi - lo + 1) |-> Features(data[lo + i - 1])])
             preds == [i \in 1..(hi - lo + 1) |-> generate(batch.input_ids[i], g)]
             rest  == EvalFrom(data, hi + 1, g)
         IN <<nested_concat(preds, rest[1]), nested_concat(batch.labels, rest[2])>>

evaluation_loop(data, g) == EvalFrom(data, 1, g)

\* Losses an evaluation may report.
LCands == <<21500000, 8000000, 13370000>>

\* trainer.evaluate(eval_dataset): the evaluation loop, compute_metrics on
\* its output, and the metrics under the prefix "eval_".
\* batch_decode raises on an id that is no id of the vocabulary.
Decodable(batch) ==
    \A i \in 1..Len(batch) : \A j \in 1..Len(batch[i]) :
        batch[i][j] \in 0..(unk_token_id + Len(Vocab))

evaluate(eval_dataset, g, c) ==
    LET output  == evaluation_loop(dataset[eval_dataset], g)
        call    == compute_metrics(output, c)
        metrics == call.ret
    IN IF Decodable(output[1]) /\ Decodable(output[2])
       THEN [raised  |-> FALSE,
             call    |-> call,
             metrics |-> [k \in {"eval_" \o x : x \in DOMAIN metrics} \cup {"eval_loss"} |->
                            IF k = "eval_loss" THEN LCands[(c % Len(LCands)) + 1]
                            ELSE metrics[CHOOSE x \in DOMAIN metrics : "eval_" \o x = k]]]
       ELSE [raised |-> TRUE, call |-> [eval_pred |-> output]]

\* What an evaluation saw: the split, the weights (the number of updates
\* made before it), the epochs completed, and whether trainer.train ran it.
EvalRecord(split, global_step, epoch, during_train) ==
    [split |-> split, global_step |-> global_step, epoch |-> epoch,
     during_train |-> during_train]

\* --------------------------------------------------- cell 5: trainer.train()
RECURSIVE SortedSeq(_)
SortedSeq(S) ==
    IF S = {} THEN <<>>
    ELSE LET m == CHOOSE x \in S : \A y \in S : x <= y
         IN <<m>> \o SortedSeq(S \ {m})

\* trainer.train() is entered: the first epoch has the whole train set ahead.
TrainBegin ==
    /\ pc = "train"
    /\ remaining' = 1..Len(dataset[trainer.train_dataset])
    /\ Enter("train")
    /\ pc' = "training"
    /\ UNCHANGED <<compute_metrics_calls, files, finished, error, read_csv_calls, df, lists, dataset,
                   training_args, trainer, last_batch, trained_on, evaluations,
                   metrics_call, results, printed>>

\* One training step: the (shuffling) sampler draws a batch of rows the
\* epoch has not used, the collator builds the batch, the weights change.
TrainingStep ==
    /\ pc = "training"
    /\ remaining # {}
    /\ \E rows \in SUBSET remaining :
        /\ Cardinality(rows) = Min(trainer.args.per_device_train_batch_size,
                                   Cardinality(remaining))
        /\ LET idx == SortedSeq(rows)
               data == dataset[trainer.train_dataset]
           IN last_batch' = data_collator([i \in 1..Len(idx) |-> Features(data[idx[i]])])
        /\ trained_on' = trained_on \cup {<<trainer.train_dataset, r>> : r \in rows}
        /\ remaining' = remaining \ rows
    /\ trainer' = [trainer EXCEPT !.global_step = @ + 1]
    /\ UNCHANGED <<compute_metrics_calls, files, pc, started, finished, error, read_csv_calls, df,
                   lists, dataset, training_args, evaluations, metrics_call,
                   results, printed>>

\* The end of an epoch: with evaluation_strategy 'epoch' the trainer
\* evaluates on its eval_dataset, which calls compute_metrics; then the next
\* epoch, if any, has the whole train set ahead again.
EpochEnd ==
    /\ pc = "training"
    /\ remaining = {}
    /\ trainer.epoch < trainer.args.num_train_epochs
    /\ trainer' = [trainer EXCEPT !.epoch = @ + 1]
    /\ IF trainer.args.evaluation_strategy = "epoch"
       THEN \E g \in 1..NumGen : \E c \in 1..NumScore :
              LET out == evaluate(trainer.eval_dataset, g, c)
              IN /\ metrics_call' = out.call
                 /\ compute_metrics_calls' = compute_metrics_calls + 1
                 /\ evaluations' = Append(evaluations,
                        EvalRecord(trainer.eval_dataset, trainer.global_step,
                                   trainer.epoch + 1, TRUE))
                 /\ pc' = IF out.raised THEN "failed" ELSE pc
                 /\ error' = IF out.raised THEN "train" ELSE error
       ELSE UNCHANGED <<metrics_call, compute_metrics_calls, evaluations, pc, error>>
    /\ remaining' = IF trainer.epoch + 1 < trainer.args.num_train_epochs
                    THEN 1..Len(dataset[trainer.train_dataset])
                    ELSE {}
    /\ UNCHANGED <<files, started, finished, read_csv_calls, df,
                   lists, dataset, training_args, last_batch, trained_on,
                   results, printed>>

\* trainer.train() returns after the last epoch.
TrainReturn ==
    /\ pc = "training"
    /\ remaining = {}
    /\ trainer.epoch >= trainer.args.num_train_epochs
    /\ Leave("train")
    /\ pc' = "evaluate"
    /\ UNCHANGED <<compute_metrics_calls, files, started, error, read_csv_calls, df, lists, dataset,
                   training_args, trainer, remaining, last_batch, trained_on,
                   evaluations, metrics_call, results, printed>>

\* ------------------------------------------------------------------ cell 6
\* results = trainer.evaluate(eval_dataset=dataset['test']); print(results)
EvaluateTest ==
    /\ pc = "evaluate"
    /\ \E g \in 1..NumGen : \E c \in 1..NumScore :
        LET out == evaluate("test", g, c)
        IN /\ metrics_call' = out.call
           /\ IF out.raised
              THEN /\ pc' = "failed"
                   /\ error' = "evaluate"
                   /\ UNCHANGED <<results, printed, finished>>
              ELSE /\ results' = out.metrics
                   /\ printed' = out.metrics
                   /\ Leave("evaluate")
                   /\ pc' = "done"
                   /\ UNCHANGED error
    /\ compute_metrics_calls' = compute_metrics_calls + 1
    /\ evaluations' = Append(evaluations,
            EvalRecord("test", trainer.global_step, trainer.epoch, FALSE))
    /\ Enter("evaluate")
    /\ UNCHANGED <<files, read_csv_calls, df, lists, dataset,
                   training_args, trainer, remaining, last_batch, trained_on>>

\* ----------------------------------------------------------------- failure
\* No statement of the notebook is inside a try block: an exception raised
\* by the statement the notebook is at ends the run there.
StageOf(p) == IF p = "training" THEN "train" ELSE p

\* Raise as it would be with the statement wrapped in try/except-pass: the
\* error is noted and the notebook goes on with the next stage.
Raise_swallowed ==
    /\ StageOf(pc) \in StageSet
    /\ error' = StageOf(pc)
    /\ started' = IF pc = "training" THEN started
                  ELSE [started EXCEPT ![pc] = @ + 1]
    /\ pc' = IF pc = "read" THEN "tokenize"
             ELSE IF pc = "tokenize" THEN "configure"
             ELSE IF pc = "configure" THEN "train"
             ELSE IF pc = "evaluate" THEN "done"
             ELSE "evaluate"
    /\ UNCHANGED <<compute_metrics_calls, files, finished, read_csv_calls, df, lists, dataset,
                   training_args, trainer, remaining, last_batch, trained_on,
                   evaluations, metrics_call, results, printed>>

Raise ==
    /\ StageOf(pc) \in StageSet
    /\ error' = StageOf(pc)
    /\ started' = IF pc = "training" THEN started
                  ELSE [started EXCEPT ![pc] = @ + 1]
    /\ pc' = "failed"
    /\ UNCHANGED <<compute_metrics_calls, files, finished, read_csv_calls, df, lists, dataset,
                   training_args, trainer, remaining, last_batch, trained_on,
                   evaluations, metrics_call, results, printed>>

Next ==
    \/ ReadCSV
    \/ Tokenize
    \/ Configure
    \/ TrainBegin
    \/ TrainingStep
    \/ EpochEnd
    \/ TrainReturn
    \/ EvaluateTest
    \/ Raise

Spec == Init /\ [][Next]_vars

\* ================================================================== claims
HasReturn(call) == call # None /\ "ret" \in DOMAIN call

\* The raw score behind key k of a compute_metrics call: the ROUGE mid
\* F-measure times 100, or the BLEU score.
RawScore(call, k) ==
    IF k = "bleu" THEN call.bleu.score ELSE call.rouge_out[k].mid.fmeasure * 100

\* C1: every value compute_metrics returns is a multiple of 10^-4 and lies
\* within half of 10^-4 of the unrounded score.
C1_RoundedToFourPlaces ==
    HasReturn(metrics_call) =>
        \A k \in DOMAIN metrics_call.ret :
            LET v   == metrics_call.ret[k]
                raw == RawScore(metrics_call, k)
            IN /\ v % (SCALE \div 10000) = 0
               /\ 2 * (v - raw) <= SCALE \div 10000
               /\ 2 * (raw - v) <= SCALE \div 10000

\* A call in which one score was rounded up, one down, and one was a tie.
C1_Witness ==
    /\ HasReturn(metrics_call)
    /\ \E k \in DOMAIN metrics_call.ret : metrics_call.ret[k] > RawScore(metrics_call, k)
    /\ \E k \in DOMAIN metrics_call.ret : metrics_call.ret[k] < RawScore(metrics_call, k)
    /\ \E k \in DOMAIN metrics_call.ret :
            RawScore(metrics_call, k) % (SCALE \div 10000) = (SCALE \div 10000) \div 2

\* The split the last evaluation ran on.
LastSplit == evaluations[Len(evaluations)].split

\* C2: the metrics get decoded texts only: both metrics receive the decoded
\* predictions and the decoded labels of the evaluation output, the lists
\* are as long as the evaluated split, and position i holds the prediction
\* generated from example i and the decoding of the labels of example i.
C2_DecodedPairs ==
    HasReturn(metrics_call) =>
        LET m    == metrics_call
            data == dataset[LastSplit]
        IN /\ Len(m.eval_pred[1]) = Len(data)
           /\ Len(m.eval_pred[2]) = Len(data)
           /\ m.rouge_call.predictions = batch_decode(m.eval_pred[1])
           /\ m.rouge_call.references = batch_decode(m.eval_pred[2])
           /\ m.bleu_call.hypotheses = m.rouge_call.predictions
           /\ m.bleu_call.references = <<m.rouge_call.references>>
           /\ Len(m.rouge_call.predictions) = Len(m.rouge_call.references)
           /\ \A i \in 1..Len(data) :
                /\ m.rouge_call.references[i] = decode(data[i].labels)
                /\ \E g \in 1..(GenMaxLen - 1) :
                        m.eval_pred[1][i] = generate(data[i].input_ids, g)
                /\ \A j \in 1..Len(m.rouge_call.predictions[i]) :
                        m.rouge_call.predictions[i][j] \in Words
                /\ \A j \in 1..Len(m.rouge_call.references[i]) :
                        m.rouge_call.references[i][j] \in Words

\* A call over several examples whose decoded predictions differ from the
\* decoded labels and from each other.
C2_Witness ==
    /\ HasReturn(metrics_call)
    /\ Len(metrics_call.rouge_call.predictions) >= 2
    /\ metrics_call.rouge_call.predictions # metrics_call.rouge_call.references
    /\ metrics_call.rouge_call.predictions[1] # metrics_call.rouge_call.predictions[2]
    /\ metrics_call.rouge_call.references[1] # metrics_call.rouge_call.references[2]
    /\ \E i \in 1..Len(metrics_call.eval_pred[2]) :
            Len(metrics_call.rouge_call.references[i]) < Len(metrics_call.eval_pred[2][i])

\* C3 as stated: the returned keys are the ROUGE keys and "bleu", three in all.
C3_ThreeKeys ==
    HasReturn(metrics_call) =>
        /\ DOMAIN metrics_call.ret = (DOMAIN metrics_call.rouge_out) \cup {"bleu"}
        /\ Cardinality(DOMAIN metrics_call.ret) = 3

\* C3 amended: the returned keys are the ROUGE keys and "bleu"; the ROUGE
\* metric returns its four default types, so there are five keys.
C3_RougeKeysAndBleu ==
    HasReturn(metrics_call) =>
        /\ DOMAIN metrics_call.ret = (DOMAIN metrics_call.rouge_out) \cup {"bleu"}
        /\ DOMAIN metrics_call.rouge_out = {"rouge1", "rouge2", "rougeL", "rougeLsum"}
        /\ Cardinality(DOMAIN metrics_call.ret) = 5

C3_Witness ==
    /\ HasReturn(metrics_call)
    /\ "bleu" \in DOMAIN metrics_call.ret
    /\ "rougeLsum" \in DOMAIN metrics_call.ret

\* Position of a stage in the flow.
StageIndex(st) == CHOOSE i \in 1..Len(Stages) : Stages[i] = st

\* C4: the stages run in the order read, tokenize, configure, train,
\* evaluate; none is entered twice, none is entered before the one before
\* it has completed, the test evaluation comes after trainer.train has
\* returned, and a complete run has completed each stage once.
C4_LinearFlow ==
    /\ \A st \in StageSet : started[st] <= 1 /\ finished[st] <= started[st]
    /\ \A i \in 2..Len(Stages) :
            started[Stages[i]] > 0 => finished[Stages[i - 1]] = 1
    /\ pc \in StageSet =>
            /\ \A i \in 1..Len(Stages) :
                    i < StageIndex(pc) => finished[Stages[i]] = 1
            /\ \A i \in 1..Len(Stages) :
                    i >= StageIndex(pc) => started[Stages[i]] = 0
    /\ pc = "training" => started["train"] = 1 /\ finished["train"] = 0
    /\ \A k \in 1..Len(evaluations) :
            ~evaluations[k].during_train =>
                finished["train"] = 1 /\ started["evaluate"] = 1
    /\ trained_on # {} => finished["configure"] = 1 /\ started["train"] = 1
    /\ pc = "done" => \A st \in StageSet : started[st] = 1 /\ finished[st] = 1

C4_Witness ==
    /\ pc = "done"
    /\ \A st \in StageSet : finished[st] = 1
    /\ trained_on # {}
    /\ Len(evaluations) > 1

\* The file a split is built from.
PathOf(split) ==
    IF split = "train" THEN train_csv
    ELSE IF split = "validation" THEN val_csv
    ELSE test_csv

Pair(row) == <<row.transcription, row.description>>
PairsOf(rows) == {Pair(rows[i]) : i \in 1..Len(rows)}

\* No two of the three files share a (transcription, description) pair.
FilesDisjoint ==
    \A a \in Splits : \A b \in Splits \ {a} :
        PairsOf(files[PathOf(a)]) \cap PairsOf(files[PathOf(b)]) = {}

\* C5: read_csv is called with the three fixed paths and nothing else; each
\* split has the rows of its own file, in order, row i pairing the
\* transcription and the description of row i; no other column is carried
\* along, and no row of another file is in a split.
C5_SplitsFromOwnFiles ==
    /\ read_csv_calls \in {<<>>, <<train_csv, val_csv, test_csv>>}
    /\ finished["read"] = 1 => read_csv_calls = <<train_csv, val_csv, test_csv>>
    /\ dataset # None =>
        \A sp \in Splits :
            LET f == files[PathOf(sp)]
            IN /\ Len(dataset[sp]) = Len(f)
               /\ \A i \in 1..Len(f) :
                    /\ dataset[sp][i].transcription = f[i].transcription
                    /\ dataset[sp][i].description = f[i].description
                    /\ "medical_specialty" \notin DOMAIN dataset[sp][i]
               /\ FilesDisjoint =>
                    \A other \in Splits \ {sp} :
                        PairsOf(dataset[sp]) \cap PairsOf(files[PathOf(other)]) = {}

C5_Witness ==
    /\ dataset # None
    /\ FilesDisjoint
    /\ Len(dataset["validation"]) >= 2
    /\ Len(dataset["train"]) # Len(dataset["validation"])
    /\ Pair(dataset["validation"][1]) # Pair(dataset["validation"][2])

\* C6: an exception ends the run at the stage that raised it: that stage
\* was entered once and did not complete, no later stage was entered,
\* nothing was printed, and no step is taken after the failure; whatever is
\* printed comes from a run in which every stage completed without error.
C6_StateAfterError ==
    /\ error # "none" =>
        /\ pc = "failed"
        /\ printed = None
        /\ started[error] = 1 /\ finished[error] = 0
        /\ \A i \in 1..Len(Stages) :
                i > StageIndex(error) => started[Stages[i]] = 0
    /\ pc = "failed" => error # "none"
    /\ printed # None =>
        /\ error = "none"
        /\ \A st \in StageSet : finished[st] = 1

\* C6, with the steps: the state after an error is as above in every state,
\* and every step of the notebook starts in a state without an error.
C6_NoRecovery == [](C6_StateAfterError) /\ [][error = "none"]_vars

C6_Witness ==
    /\ pc = "failed"
    /\ error = "train"
    /\ compute_metrics_calls >= 1
    /\ printed = None

\* Training steps one epoch takes.
StepsPerEpoch ==
    (Len(dataset["train"]) + per_device_train_batch_size - 1)
        \div per_device_train_batch_size

\* C7: trainer.train makes three epochs over the train split, evaluating on
\* the validation split at the end of each (after that epoch's updates and
\* before the next epoch's), one compute_metrics call per evaluation; a
\* complete run calls compute_metrics four times.
C7_EpochsAndEvaluations ==
    /\ compute_metrics_calls = Len(evaluations)
    /\ \A k \in 1..Len(evaluations) :
            evaluations[k].during_train =>
                /\ k <= 3
                /\ evaluations[k].split = "validation"
                /\ evaluations[k].epoch = k
                /\ evaluations[k].global_step = k * StepsPerEpoch
    /\ pc = "training" =>
            /\ trainer.epoch <= 3
            /\ Len(evaluations) = trainer.epoch
            /\ trainer.global_step >= trainer.epoch * StepsPerEpoch
            /\ trainer.epoch < 3 => trainer.global_step <= (trainer.epoch + 1) * StepsPerEpoch
    /\ finished["train"] = 1 =>
            /\ trainer.epoch = 3
            /\ trainer.global_step = 3 * StepsPerEpoch
            /\ trained_on = {<<"train", r>> : r \in 1..Len(dataset["train"])}
            /\ Len(SelectSeq(evaluations, LAMBDA e : e.during_train)) = 3
    /\ pc = "done" => compute_metrics_calls = 4 /\ Len(evaluations) = 4

C7_Witness ==
    /\ pc = "done"
    /\ compute_metrics_calls = 4
    /\ StepsPerEpoch >= 2
    /\ trainer.global_step = 3 * StepsPerEpoch

\* ids is text cut to L - 1 pieces, then </s>, then <pad> up to length L.
IsEncoding(ids, text, L) ==
    LET n == IF Len(text) < L - 1 THEN Len(text) ELSE L - 1
    IN /\ Len(ids) = L
       /\ \A j \in 1..n : ids[j] = convert_tokens_to_ids(text[j])
       /\ ids[n + 1] = eos_token_id
       /\ \A j \in (n + 2)..L : ids[j] = pad_token_id

\* C8: every example has 512 input ids and 128 label ids; the labels are
\* the token ids of its own description and the inputs those of its own
\* transcription; the examples are as many as the rows, in the same order.
C8_FixedLengths ==
    dataset # None =>
        /\ Len(dataset["train"]) = Len(lists.train_transcriptions)
        /\ Len(dataset["validation"]) = Len(lists.val_transcriptions)
        /\ Len(dataset["test"]) = Len(lists.test_transcriptions)
        /\ \A i \in 1..Len(dataset["train"]) :
                /\ dataset["train"][i].transcription = lists.train_transcriptions[i]
                /\ dataset["train"][i].description = lists.train_descriptions[i]
        /\ \A i \in 1..Len(dataset["validation"]) :
                /\ dataset["validation"][i].transcription = lists.val_transcriptions[i]
                /\ dataset["validation"][i].description = lists.val_descriptions[i]
        /\ \A i \in 1..Len(dataset["test"]) :
                /\ dataset["test"][i].transcription = lists.test_transcriptions[i]
                /\ dataset["test"][i].description = lists.test_descriptions[i]
        /\ \A sp \in Splits : \A i \in 1..Len(dataset[sp]) :
                LET ex == dataset[sp][i]
                IN /\ Len(ex.input_ids) = 512
                   /\ Len(ex.labels) = 128
                   /\ IsEncoding(ex.input_ids, ex.transcription, 512)
                   /\ IsEncoding(ex.labels, ex.description, 128)

\* Long and short texts of both kinds were tokenized, and one split took
\* more than one call of preprocess_function.
C8_Witness ==
    /\ dataset # None
    /\ \E sp \in Splits : \E i \in 1..Len(dataset[sp]) : Len(dataset[sp][i].transcription) > 512
    /\ \E sp \in Splits : \E i \in 1..Len(dataset[sp]) : Len(dataset[sp][i].transcription) < 511
    /\ \E sp \in Splits : \E i \in 1..Len(dataset[sp]) : Len(dataset[sp][i].description) > 128
    /\ \E sp \in Splits : \E i \in 1..Len(dataset[sp]) : Len(dataset[sp][i].description) < 127
    /\ \E sp \in Splits : Len(dataset[sp]) >= 3

LabelsOf(rows) == [i \in 1..Len(rows) |-> rows[i].labels]

\* C9: weight updates use rows of the train split only; the evaluations
\* trainer.train runs are on the validation split; the test split is
\* evaluated once, after training, with the weights of the last epoch, and
\* what is printed is computed from the test split alone.
C9_SplitRoles ==
    /\ \A t \in trained_on : t[1] = "train"
    /\ \A k \in 1..Len(evaluations) :
            /\ evaluations[k].during_train => evaluations[k].split = "validation"
            /\ evaluations[k].split = "test" =>
                    /\ ~evaluations[k].during_train
                    /\ k = Len(evaluations)
                    /\ finished["train"] = 1
                    /\ evaluations[k].epoch = 3
                    /\ evaluations[k].global_step = 3 * StepsPerEpoch
                    /\ evaluations[k].global_step = trainer.global_step
    /\ (finished["train"] = 0 /\ HasReturn(metrics_call)) =>
            metrics_call.eval_pred[2] = LabelsOf(dataset["validation"])
    /\ printed # None =>
            /\ LastSplit = "test"
            /\ metrics_call.eval_pred[2] = LabelsOf(dataset["test"])
            /\ \A i \in 1..Len(dataset["test"]) :
                    \E g \in 1..(GenMaxLen - 1) :
                        metrics_call.eval_pred[1][i] = generate(dataset["test"][i].input_ids, g)
            /\ \A k \in DOMAIN metrics_call.ret :
                    printed["eval_" \o k] = metrics_call.ret[k]

C9_Witness ==
    /\ printed # None
    /\ LabelsOf(dataset["test"]) # LabelsOf(dataset["validation"])
    /\ Len(evaluations) = 4
    /\ trained_on # {}

\* C10: all labels rows have length 128, so the collator adds no -100: no
\* label id of a training batch or of a compute_metrics call is negative,
\* and the pad positions of a training batch count in the loss.
C10_NoIgnoreIndexInLabels ==
    /\ dataset # None =>
            \A sp \in Splits : \A i \in 1..Len(dataset[sp]) :
                Len(dataset[sp][i].labels) = 128
    /\ last_batch # None =>
            \A i \in 1..Len(last_batch.labels) :
                /\ Len(last_batch.labels[i]) = 128
                /\ \A j \in 1..Len(last_batch.labels[i]) :
                        last_batch.labels[i][j] >= 0
                /\ LossPositions(last_batch.labels[i]) = 1..128
    /\ metrics_call # None =>
            \A i \in 1..Len(metrics_call.eval_pred[2]) :
                \A j \in 1..Len(metrics_call.eval_pred[2][i]) :
                    /\ metrics_call.eval_pred[2][i][j] # 0 - 100
                    /\ metrics_call.eval_pred[2][i][j] >= 0

\* A training batch of two rows with different numbers of pad positions, and
\* a compute_metrics call over several rows.
C10_Witness ==
    /\ last_batch # None
    /\ Len(last_batch.labels) = 2
    /\ Len(FilterOut(last_batch.labels[1], {pad_token_id}))
            # Len(FilterOut(last_batch.labels[2], {pad_token_id}))
    /\ \E j \in 1..128 : last_batch.labels[1][j] = pad_token_id
                            /\ j \in LossPositions(last_batch.labels[1])
    /\ HasReturn(metrics_call)
    /\ Len(metrics_call.eval_pred[2]) >= 2

====
